---- MODULE Spec2Model ----
(***************************************************************************)
(* Model of src/applications.py: the FastAPI application class, a thin     *)
(* subclass of Starlette that registers routes by list mutation.           *)
(*                                                                         *)
(* Route objects live in a heap and are referred to by identity (their     *)
(* index in the heap), because include_router mutates the route objects of *)
(* the router in place and appends the very same objects to the            *)
(* application's list.  Paths are strings and prefixing is real string     *)
(* concatenation.                                                          *)
(***************************************************************************)
EXTENDS Integers, Sequences, FiniteSets, TLC

VARIABLES heap, routes, routers, constructed, last

vars == <<heap, routes, routers, constructed, last>>

(***************************************************************************)
(* Bounds of the model.                                                    *)
(***************************************************************************)
\* the longest application route list explored
MaxRoutes == 3
\* the number of add_api_route calls explored
MaxAdds == 2

(***************************************************************************)
(* Inputs.                                                                 *)
(***************************************************************************)
Paths == {"/a", "/b"}
Prefixes == {"", "/v1"}
Endpoints == {"f", "g"}

\* An optional list argument (list[...] | None): None, or a list.
None == [isNone |-> TRUE, list |-> <<>>]
Some(l) == [isNone |-> FALSE, list |-> l]

\* the values tried for add_api_route's methods argument
MethodsArgs == {None, Some(<<>>), Some(<<"POST">>), Some(<<"GET", "POST">>)}

\* The route objects that exist before the application is constructed:
\* routes 1 and 2 belong to router "r1", route 3 to router "r2"; router "r0"
\* is empty.  Each is either an APIRoute or a plain starlette route.
RouterIds == {"r0", "r1", "r2"}
RouterRoutes == [r0 |-> <<>>, r1 |-> <<1, 2>>, r2 |-> <<3>>]
Kinds == {"APIRoute", "Route"}
InitialPaths == <<"/a", "/b", "/a">>

\* the values tried for the constructor's routes argument
RoutesArgs == {None, Some(<<>>), Some(<<3>>), Some(<<2, 3>>)}

NoCall == [op |-> "none", path |-> "", endpoint |-> "", methods |-> None,
           router |-> "", prefix |-> "", routesArg |-> None, result |-> <<>>]

(***************************************************************************)
(* Helpers.                                                                *)
(***************************************************************************)
Range(s) == {s[i] : i \in DOMAIN s}

IsPrefix(s, t) == Len(s) <= Len(t) /\ \A i \in 1..Len(s) : s[i] = t[i]

\* fastapi.routing.APIRoute(path=, endpoint=, methods=): a route object that
\* keeps the path and the endpoint and accepts the set of the listed methods
APIRoute(path, endpoint, methods) ==
    [kind |-> "APIRoute", path |-> path, endpoint |-> endpoint,
     methods |-> Range(methods)]

\* isinstance(route, APIRoute)
isinstance_APIRoute(route) == route.kind = "APIRoute"

(***************************************************************************)
(* FastAPI.__init__: all arguments are handed to Starlette.__init__, whose *)
(* router keeps a copy of the list (the empty list for None).              *)
(***************************************************************************)
init_routes_dropped(arg) == <<>>

init_routes(arg) ==
    IF arg.isNone THEN <<>> ELSE arg.list

FastAPI_init(arg) ==
    /\ ~constructed
    /\ constructed' = TRUE
    /\ routes' = init_routes(arg)
    /\ last' = [NoCall EXCEPT !.op = "__init__", !.routesArg = arg]
    /\ UNCHANGED <<heap, routers>>

(***************************************************************************)
(* FastAPI.openapi                                                         *)
(***************************************************************************)
\* a dict is a function; the empty dict {} is the empty function <<>>
openapi_schema_paths(rs, h) ==
    [openapi |-> "3.1.0",
     info |-> [title |-> "FastAPI", version |-> "0.1.0"],
     paths |-> [p \in {h[rs[i]].path : i \in DOMAIN rs} |-> "item"]]

openapi_schema(rs, h) ==
    IF rs = <<>>
    THEN [openapi |-> "3.1.0",
          info |-> [title |-> "FastAPI", version |-> "0.1.0"],
          paths |-> <<>>]
    ELSE [openapi |-> "3.1.0",
          info |-> [title |-> "FastAPI", version |-> "0.1.0"],
          paths |-> <<>>]

openapi ==
    /\ constructed
    /\ last' = [NoCall EXCEPT !.op = "openapi",
                              !.result = openapi_schema(routes, heap)]
    /\ UNCHANGED <<heap, routes, routers, constructed>>

(***************************************************************************)
(* FastAPI.add_api_route                                                   *)
(***************************************************************************)
\* methods or ["GET"]: None and the empty list are both falsy
methods_or_default(methods) ==
    IF methods.isNone \/ methods.list = <<>> THEN <<"GET">> ELSE methods.list

new_api_route(path, endpoint, methods) ==
    APIRoute(path, endpoint, methods_or_default(methods))

\* self.routes.append(route), the route being the heap's newest object
append_route_front(rs, id) == <<id>> \o rs

append_route(rs, id) == Append(rs, id)

NumAdded == Len(heap) - Len(InitialPaths)

add_api_route(path, endpoint, methods) ==
    /\ constructed
    /\ Len(routes) < MaxRoutes
    /\ NumAdded < MaxAdds
    /\ heap' = Append(heap, new_api_route(path, endpoint, methods))
    /\ routes' = append_route(routes, Len(heap) + 1)
    /\ last' = [NoCall EXCEPT !.op = "add_api_route", !.path = path,
                              !.endpoint = endpoint, !.methods = methods]
    /\ UNCHANGED <<routers, constructed>>

(***************************************************************************)
(* FastAPI.include_router                                                  *)
(***************************************************************************)
\* route.path = prefix + route.path, for an APIRoute only
prefixed_slash(route, prefix) ==
    IF isinstance_APIRoute(route)
    THEN [route EXCEPT !.path = prefix \o "/" \o @]
    ELSE route

prefixed(route, prefix) ==
    IF isinstance_APIRoute(route)
    THEN [route EXCEPT !.path = prefix \o @]
    ELSE route

\* one iteration of the loop on the route object id: the state is the heap
\* and the application's route list
include_step_skip(st, id, prefix) ==
    IF isinstance_APIRoute(st.heap[id])
    THEN [heap |-> [st.heap EXCEPT ![id] = prefixed(@, prefix)],
          routes |-> Append(st.routes, id)]
    ELSE st

include_step_dedup(st, id, prefix) ==
    [heap |-> [st.heap EXCEPT ![id] = prefixed(@, prefix)],
     routes |-> Append(SelectSeq(st.routes, LAMBDA x : x # id), id)]

include_step(st, id, prefix) ==
    [heap |-> [st.heap EXCEPT ![id] = prefixed(@, prefix)],
     routes |-> Append(st.routes, id)]

\* for route in router.routes: ...
RECURSIVE include_loop(_, _, _, _)
include_loop(st, rs, prefix, i) ==
    IF i > Len(rs)
    THEN st
    ELSE include_loop(include_step(st, rs[i], prefix), rs, prefix, i + 1)

include_router(router, prefix) ==
    /\ constructed
    /\ Len(routes) + Len(routers[router]) <= MaxRoutes
    /\ LET st == include_loop([heap |-> heap, routes |-> routes],
                              routers[router], prefix, 1)
       IN  /\ heap' = st.heap
           /\ routes' = st.routes
    /\ last' = [NoCall EXCEPT !.op = "include_router", !.router = router,
                              !.prefix = prefix]
    /\ UNCHANGED <<routers, constructed>>

(***************************************************************************)
(* The state machine.                                                      *)
(***************************************************************************)
Init ==
    /\ \E ks \in [1..Len(InitialPaths) -> Kinds] :
         heap = [i \in 1..Len(InitialPaths) |->
                   [kind |-> ks[i], path |-> InitialPaths[i],
                    endpoint |-> "f", methods |-> {"GET"}]]
    /\ routers = RouterRoutes
    /\ routes = <<>>
    /\ constructed = FALSE
    /\ last = NoCall

Next ==
    \/ \E arg \in RoutesArgs : FastAPI_init(arg)
    \/ openapi
    \/ \E path \in Paths, endpoint \in Endpoints, methods \in MethodsArgs :
         add_api_route(path, endpoint, methods)
    \/ \E router \in RouterIds, prefix \in Prefixes :
         include_router(router, prefix)

Spec == Init /\ [][Next]_vars

(***************************************************************************)
(* Properties.  A step that changes the state and ends with last.op = o is *)
(* a call of o with the arguments recorded in last, so the action          *)
(* properties below relate the state before a call to the state after it.  *)
(***************************************************************************)
TypeOK ==
    /\ constructed \in BOOLEAN
    /\ routes \in Seq(DOMAIN heap)
    /\ \A id \in DOMAIN heap : heap[id].kind \in Kinds
    /\ routers = RouterRoutes

\* C1: add_api_route(path, endpoint) appends exactly one new route at the end
\* of the route list, with the given path and endpoint; every route present
\* before keeps its index (and is unchanged).
C1_AddAppendsOneRoute ==
    [][last'.op = "add_api_route" =>
         /\ Len(routes') = Len(routes) + 1
         /\ \A i \in DOMAIN routes : routes'[i] = routes[i]
         /\ LET new == routes'[Len(routes')]
            IN  /\ new \notin DOMAIN heap
                /\ heap'[new].path = last'.path
                /\ heap'[new].endpoint = last'.endpoint
         /\ \A id \in DOMAIN heap : heap'[id] = heap[id]]_vars

C1_Witness ==
    /\ last.op = "add_api_route"
    /\ Len(routes) >= 2
    /\ routes[1] <= Len(InitialPaths)
    /\ heap[routes[Len(routes)]].path = last.path
    /\ heap[routes[Len(routes)]].endpoint = last.endpoint

\* C2 (as claimed): the route created by add_api_route accepts exactly the
\* methods of the methods argument, and exactly GET when the argument is None.
C2_MethodsExactlyAsGiven ==
    last.op = "add_api_route" =>
        heap[routes[Len(routes)]].methods =
            (IF last.methods.isNone THEN {"GET"} ELSE Range(last.methods.list))

\* C3 (as claimed): include_router(router, prefix=p) leaves every route of the
\* router in the application's list with path p + (its path before the call).
C3_PrefixAppliedToAllRoutes ==
    [][last'.op = "include_router" =>
         \A i \in DOMAIN routers[last'.router] :
            LET id == routers[last'.router][i]
            IN  /\ Len(routes') >= Len(routes) + i
                /\ routes'[Len(routes) + i] = id
                /\ heap'[id].path = last'.prefix \o heap[id].path]_vars

\* C4: include_router appends every route of the router, APIRoute or not, at
\* the end of the route list in the router's order: the list grows by the
\* number of routes of the router and the earlier routes keep their indices.
C4_IncludeAppendsAllRoutes ==
    [][last'.op = "include_router" =>
         /\ Len(routes') = Len(routes) + Len(routers[last'.router])
         /\ \A i \in DOMAIN routes : routes'[i] = routes[i]
         /\ \A i \in DOMAIN routers[last'.router] :
               routes'[Len(routes) + i] = routers[last'.router][i]]_vars

C4_Witness ==
    /\ last.op = "include_router"
    /\ Len(routers[last.router]) = 2
    /\ Len(routes) > 2
    /\ \E i \in DOMAIN routers[last.router] :
          ~isinstance_APIRoute(heap[routers[last.router][i]])
    /\ SubSeq(routes, Len(routes) - 1, Len(routes)) = routers[last.router]

\* C5: openapi() returns the same stub schema whatever routes the application
\* has (openapi 3.1.0, title FastAPI, version 0.1.0, empty paths), and a call
\* changes neither the route list nor any route.
C5_OpenapiIsStateIndependentStub ==
    /\ [](last.op = "openapi" =>
            /\ last.result.openapi = "3.1.0"
            /\ last.result.info = [title |-> "FastAPI", version |-> "0.1.0"]
            /\ DOMAIN last.result.paths = {}
            /\ DOMAIN last.result = {"openapi", "info", "paths"})
    /\ [][last'.op = "openapi" =>
            routes' = routes /\ heap' = heap /\ routers' = routers]_vars

C5_Witness ==
    /\ last.op = "openapi"
    /\ \E i, j \in DOMAIN routes :
          routes[i] > Len(InitialPaths) /\ routes[j] <= Len(InitialPaths)
    /\ DOMAIN last.result.paths = {}

\* C6: the route list never shrinks and never reorders: in every step the
\* list before is a prefix of the list after, even when the same path and
\* methods are registered twice.
C6_RoutesOnlyAppended ==
    [][constructed => IsPrefix(routes, routes')]_vars

C6_Witness ==
    /\ last.op \in {"add_api_route", "include_router"}
    /\ \E i, j \in DOMAIN routes :
          /\ i < j
          /\ j = Len(routes)
          /\ heap[routes[i]].path = heap[routes[j]].path
          /\ heap[routes[i]].methods = heap[routes[j]].methods

\* C7: include_router with the default prefix "" changes no route path (no
\* route object at all); its only effect is appending the router's routes.
C7_EmptyPrefixOnlyAppends ==
    [][last'.op = "include_router" /\ last'.prefix = "" =>
         /\ \A id \in DOMAIN heap : heap'[id].path = heap[id].path
         /\ heap' = heap
         /\ routes' = routes \o routers[last'.router]
         /\ routers' = routers
         /\ constructed' = constructed]_vars

C7_Witness ==
    /\ last.op = "include_router"
    /\ last.prefix = ""
    /\ routers[last.router] # <<>>
    /\ \E i \in DOMAIN routers[last.router] :
          isinstance_APIRoute(heap[routers[last.router][i]])
    /\ Len(routes) > Len(routers[last.router])

\* C8: the constructor leaves the application with the empty route list when
\* routes is None and with exactly the routes of R, in order, when routes=R;
\* it creates no route of its own.
C8_ConstructorRegistersNothing ==
    [][~constructed /\ constructed' =>
         /\ last'.routesArg.isNone => routes' = <<>>
         /\ ~last'.routesArg.isNone =>
               /\ Len(routes') = Len(last'.routesArg.list)
               /\ \A i \in DOMAIN routes' : routes'[i] = last'.routesArg.list[i]
         /\ heap' = heap]_vars

C8_Witness ==
    /\ last.op = "__init__"
    /\ constructed
    /\ ~last.routesArg.isNone
    /\ Len(last.routesArg.list) = 2
    /\ routes = last.routesArg.list

====
